---- MODULE Spec2Model ----
(***************************************************************************)
(* Model of Suds2Library's client management keywords                      *)
(* (src/src/Suds2Library/clientmanagement.py): create_soap_client,         *)
(* switch_soap_client, close_connection and close_all_connections, acting  *)
(* on the connection cache the library holds in self._cache.               *)
(*                                                                         *)
(* A client handle is a positive integer, fresh for every constructed      *)
(* suds Client; the cache's _no_current sentinel is NoConnection.          *)
(*                                                                         *)
(* self._cache is Robot Framework's robot.utils.ConnectionCache, a         *)
(* library the keywords call into.  Its methods (register, switch,         *)
(* get_connection, current_index, empty_cache) are modelled by what they   *)
(* do at the call sites in clientmanagement.py; close_connection itself    *)
(* writes the cache's _connections and current fields directly.            *)
(***************************************************************************)
EXTENDS Integers, Sequences, FiniteSets

\* ------------------------------------------------------------------ bounds
\* Number of Client objects constructed in one behaviour.
MaxClients == 4

\* Number of Client objects constructed in one behaviour of SpecCreate.
MaxCreateClients == 2

\* Number of import descriptors pending at a time.
MaxImports == 2

\* ------------------------------------------------------------- input sets
\* The cache's _no_current sentinel (self._cache._no_current).
NoConnection == 0

\* Python's None, where the code returns or receives an index.
None == 0

\* The empty alias argument (alias=None).
NoAlias == "<none>"

\* Aliases given to create_soap_client; "2" is an alias that reads as a number.
AliasArgs == {NoAlias, "Web", "2"}

\* The cache keeps aliases in a normalized dictionary: keys are compared
\* lower-cased.
Normalize(s) == IF s = "Web" THEN "web" ELSE s

AliasKeys == {"web", "2"}

\* int(s) for the strings the model passes; 0 stands for ValueError here, and
\* the index 0 is rejected by the range test just as the error is.
StrToInt(s) == IF s = "1" THEN 1 ELSE IF s = "2" THEN 2 ELSE IF s = "3" THEN 3 ELSE 0

IntArg(i) == [kind |-> "int", i |-> i, s |-> ""]

StrArg(s) == [kind |-> "str", i |-> 0, s |-> s]

NoArg == [kind |-> "none", i |-> 0, s |-> ""]

\* Arguments given to switch_soap_client: integers (an index returned by
\* create_soap_client, or one out of range) and strings (aliases, numerals).
SwitchArgs == {IntArg(i) : i \in 0..(MaxClients + 1)}
                \cup {StrArg(s) : s \in {"Web", "web", "2", "1", "nowhere"}}

\* url_or_path by what _get_url looks at: the length of the URL scheme
\* urlparse finds, and whether os.path.isfile holds of it.
UrlArgs == {[scheme |-> n, isfile |-> f] : n \in {0, 1, 4}, f \in BOOLEAN}

\* The url_or_path values of the behaviours that explore the registry: a
\* URL, and a path to a missing file.
RegistryUrls == {[scheme |-> 4, isfile |-> FALSE], [scheme |-> 0, isfile |-> FALSE]}

\* username=None, password=None.
NoUser == "<none>"

NoPassword == "<none>"

UserArgs == {NoUser, "", "kevin"}

PasswordArgs == {NoPassword, "secret"}

\* url_or_path, username and password of a create_soap_client call.
CallArgs(urls, users, passwords) ==
    {[url |-> u, username |-> n, password |-> w] :
        u \in urls, n \in users, w \in passwords}

\* The calls of the behaviours that explore the registry: no credentials.
RegistryCalls == CallArgs(RegistryUrls, {NoUser}, {NoPassword})

\* The calls of the behaviours that explore create_soap_client: every kind
\* of reference without credentials, every username and password with a
\* URL, and credentials with a path to a missing file.
CreateCalls ==
    CallArgs(UrlArgs, {NoUser}, {NoPassword})
      \cup CallArgs({[scheme |-> 4, isfile |-> FALSE]}, UserArgs, PasswordArgs)
      \cup CallArgs({[scheme |-> 1, isfile |-> FALSE]}, {"kevin"}, {"secret"})

\* Namespaces of the import descriptors in self._imports.
Namespaces == {"ns1", "ns2"}

\* ------------------------------------------------------------------ errors
NoError == "none"

NoOpenConnection == "RuntimeError: No open connection."

NonExisting == "RuntimeError: Non-existing index or alias."

IndexError == "IndexError: list index out of range"

FileNotFound == "IOError: File not found."

ClientError == "suds: client construction failed"

RuntimeErrors == {NoOpenConnection, NonExisting}

\* ------------------------------------------------------------------- state
VARIABLES
    connections,  \* self._cache._connections: list of handles / the sentinel
    current,      \* self._cache.current
    aliases,      \* self._cache._aliases: normalized alias -> index (0: unbound)
    nextId,       \* identity of the next Client object constructed
    pre,          \* history: the cache as it was when the last keyword began
    last,         \* history: the last keyword, its argument, error and result
    owner,        \* history: normalized alias -> handle last created with it
    hist,         \* history: handles, indices, aliases of the creates since the
                  \*          registry was last empty, while none was closed
    fresh,        \* history: no close since the registry was last empty
    pending,      \* history: close_all_connections ran, no create since
    closed,       \* history: handles closed by close_connection or
                  \*          close_all_connections
    imports,      \* self._imports: the pending import descriptors
    call          \* history: the last keyword's create_soap_client call, if
                  \*          it was one: inputs, Client(...) calls and kwargs

vars == <<connections, current, aliases, nextId, pre, last, owner, hist, fresh, pending,
          closed, imports, call>>

Cache == [connections |-> connections, current |-> current, aliases |-> aliases]

\* --------------------------------------------------- the connection cache
\* bool(cache): a connection is current.
HasCurrent(c) == c.current # NoConnection

\* cache.current_index: None without a current connection, else the 1-based
\* position of the first entry that is the current object.
CurrentIndex_NoBoolTest(c) ==
    IF \E i \in 1..Len(c.connections) : c.connections[i] = c.current
    THEN CHOOSE i \in 1..Len(c.connections) :
            /\ c.connections[i] = c.current
            /\ \A j \in 1..(i - 1) : c.connections[j] # c.current
    ELSE None

CurrentIndex(c) ==
    IF ~HasCurrent(c) THEN None
    ELSE IF \E i \in 1..Len(c.connections) : c.connections[i] = c.current
    THEN CHOOSE i \in 1..Len(c.connections) :
            /\ c.connections[i] = c.current
            /\ \A j \in 1..(i - 1) : c.connections[j] # c.current
    ELSE None

\* cache._resolve_alias: the index bound to a string alias; 0 for ValueError.
ResolveAlias(c, a) ==
    IF a.kind = "str" /\ Normalize(a.s) \in AliasKeys
    THEN c.aliases[Normalize(a.s)]
    ELSE 0

\* cache._resolve_index: int(index) within 1..len(connections); 0 for ValueError.
ResolveIndex(c, a) ==
    LET i == IF a.kind = "int" THEN a.i ELSE StrToInt(a.s)
    IN  IF 0 < i /\ i <= Len(c.connections) THEN i ELSE 0

\* cache.resolve_alias_or_index: the alias first, then the index.
ResolveAliasOrIndex(c, a) ==
    IF ResolveAlias(c, a) # 0 THEN ResolveAlias(c, a) ELSE ResolveIndex(c, a)

\* cache.get_connection(alias_or_index): RuntimeError when nothing resolves,
\* else self._connections[index-1], which raises IndexError for an alias
\* bound to an index past the end of the list.
GetConnection(c, a) ==
    LET index == ResolveAliasOrIndex(c, a)
    IN  IF index = 0 THEN [err |-> NonExisting, conn |-> NoConnection]
        ELSE IF index > Len(c.connections)
             THEN [err |-> IndexError, conn |-> NoConnection]
             ELSE [err |-> NoError, conn |-> c.connections[index]]

\* cache.register(connection, alias): append, make current, bind the alias
\* to the new index, return the index.
RegisterIndex_BeforeAppend(c) == Len(c.connections)

RegisterIndex(c) == Len(c.connections) + 1

Register_KeepCurrent(c, client, alias) ==
    [connections |-> Append(c.connections, client),
     current     |-> c.current,
     aliases     |-> IF alias # NoAlias
                     THEN [c.aliases EXCEPT ![Normalize(alias)] = RegisterIndex(c)]
                     ELSE c.aliases]

Register(c, client, alias) ==
    [connections |-> Append(c.connections, client),
     current     |-> client,
     aliases     |-> IF alias # NoAlias
                     THEN [c.aliases EXCEPT ![Normalize(alias)] = RegisterIndex(c)]
                     ELSE c.aliases]

\* cache.switch(alias_or_index): current = get_connection(alias_or_index).
Switch_MoveToEnd(c, a) ==
    LET i == ResolveAliasOrIndex(c, a)
    IN  [c EXCEPT !.current = GetConnection(c, a).conn,
                  !.connections =
                      SubSeq(c.connections, 1, i - 1)
                        \o SubSeq(c.connections, i + 1, Len(c.connections))
                        \o <<c.connections[i]>>]

Switch(c, a) == [c EXCEPT !.current = GetConnection(c, a).conn]

\* cache.empty_cache().
EmptyAliases == [k \in AliasKeys |-> 0]

EmptyCache_KeepAliases(c) ==
    [connections |-> <<>>, current |-> NoConnection, aliases |-> c.aliases]

EmptyCache(c) ==
    [connections |-> <<>>, current |-> NoConnection, aliases |-> EmptyAliases]

\* ------------------------------------------------------- close_connection
\* Lines 107-108: the current slot and the current marker are set to the
\* sentinel, then the list's LAST element is popped.
MarkAndPop_RemoveCurrent(conns, index) ==
    SubSeq(conns, 1, index - 1) \o SubSeq(conns, index + 1, Len(conns))

MarkAndPop_PopOnly(conns, index) == SubSeq(conns, 1, Len(conns) - 1)

MarkAndPop(conns, index) ==
    LET marked == [conns EXCEPT ![index] = NoConnection]
    IN  SubSeq(marked, 1, Len(marked) - 1)

\* Lines 109-112: get_connection(index-1) makes the entry before the closed
\* one current; a RuntimeError leaves the sentinel current.  (index-1 is
\* an integer at most the new length, so no IndexError arises.)
Reselect_SameIndex(c, index) ==
    LET r == GetConnection(c, IntArg(index))
    IN  IF r.err = NoError THEN [c EXCEPT !.current = r.conn] ELSE c

Reselect(c, index) ==
    LET r == GetConnection(c, IntArg(index - 1))
    IN  IF r.err = NoError THEN [c EXCEPT !.current = r.conn] ELSE c

CloseCurrent_KeepCurrent(c, index) ==
    Reselect([c EXCEPT !.connections = MarkAndPop(c.connections, index)], index)

CloseCurrent(c, index) ==
    Reselect([c EXCEPT !.connections = MarkAndPop(c.connections, index),
                       !.current = NoConnection], index)

\* --------------------------------------------------------------- _get_url
\* A reference whose URL scheme has at most one character is a path and
\* must name an existing file.
GetUrlFails_AnyScheme(u) == ~(u.scheme > 0) /\ ~u.isfile

GetUrlFails(u) == ~(u.scheme > 1) /\ ~u.isfile

\* ----------------------------------------------------- create_soap_client
\* Python truth of the username argument (line 54): None and '' are false.
Truthy_NotNone(s) == s # NoUser

Truthy(s) == s # NoUser /\ s # ""

\* Lines 54-57: the transport keyword argument, absent without a username;
\* an absent password becomes ''.
NoTransport == [present |-> FALSE, username |-> "", password |-> ""]

Transport(username, password) ==
    IF Truthy(username)
    THEN [present |-> TRUE, username |-> username,
          password |-> IF password # NoPassword THEN password ELSE ""]
    ELSE NoTransport

\* Lines 58-61: the doctor keyword argument, ImportDoctor(*imports), absent
\* when self._imports is empty.
Doctor(imps) ==
    IF imps # <<>> THEN [present |-> TRUE, imports |-> imps]
    ELSE [present |-> FALSE, imports |-> <<>>]

\* Lines 53-61: kwargs of Client(url, **kwargs).
Kwargs(username, password, imps) ==
    [transport |-> Transport(username, password), doctor |-> Doctor(imps)]

NoKwargs == [transport |-> NoTransport, doctor |-> [present |-> FALSE, imports |-> <<>>]]

\* Line 144, _add_client: self._imports = [].
ImportsAfterAdd_Kept(imps) == imps

ImportsAfterAdd(imps) == <<>>

\* Line 62 raising: the exception leaves create_soap_client, lines 63-66
\* and _add_client do not run, the cache is as it was.
AfterClientFailure_Registered(c) ==
    [c EXCEPT !.connections = Append(c.connections, NoConnection)]

AfterClientFailure(c) == c

\* The last keyword was no create_soap_client call.
NoCall ==
    [url |-> [scheme |-> 0, isfile |-> FALSE], username |-> NoUser,
     password |-> NoPassword, calls |-> 0, kwargs |-> NoKwargs,
     imports |-> <<>>, wouldBe |-> 0]

\* The client handles the registry holds.
Handles(conns) == {conns[i] : i \in 1..Len(conns)} \ {NoConnection}

\* ------------------------------------------------------------------- Init
Init ==
    /\ connections = <<>>
    /\ current = NoConnection
    /\ aliases = EmptyAliases
    /\ nextId = 1
    /\ pre = [connections |-> <<>>, current |-> NoConnection, aliases |-> EmptyAliases]
    /\ last = [op |-> "init", arg |-> NoArg, err |-> NoError, ret |-> None, first |-> FALSE]
    /\ owner = [k \in AliasKeys |-> NoConnection]
    /\ hist = <<>>
    /\ fresh = TRUE
    /\ pending = FALSE
    /\ closed = {}
    /\ imports = <<>>
    /\ call = NoCall

SetCache(c) ==
    /\ connections' = c.connections
    /\ current' = c.current
    /\ aliases' = c.aliases

\* ---------------------------------------------------------------- actions
\* The index a create_soap_client failing in Client(...) would have
\* returned, kept through the failing calls that precede this one.
WouldBe == IF last.op = "create" /\ last.err = ClientError THEN call.wouldBe ELSE 0

\* create_soap_client raising: in _get_url (line 163), before anything else
\* runs, or, with a reference _get_url accepts, in Client(url, **kwargs)
\* (line 62), after kwargs were built.
CreateSoapClientFailsWith(calls, aliasArgs) ==
    \E a \in calls, alias \in aliasArgs :
      LET u == a.url
          username == a.username
          password == a.password
      IN
        /\ pre' = Cache
        /\ last' = [op |-> "create", arg |-> StrArg(alias),
                    err |-> IF GetUrlFails(u) THEN FileNotFound ELSE ClientError,
                    ret |-> None, first |-> FALSE]
        /\ IF GetUrlFails(u)
           THEN /\ call' = [NoCall EXCEPT !.url = u, !.username = username,
                                          !.password = password, !.imports = imports]
                /\ UNCHANGED <<connections, current, aliases>>
           ELSE /\ call' = [url |-> u, username |-> username, password |-> password,
                            calls |-> 1, kwargs |-> Kwargs(username, password, imports),
                            imports |-> imports,
                            wouldBe |-> IF WouldBe # 0 THEN WouldBe
                                        ELSE RegisterIndex(Cache)]
                /\ SetCache(AfterClientFailure(Cache))
        /\ UNCHANGED <<nextId, owner, hist, fresh, pending, closed, imports>>

\* create_soap_client, lines 51-66, with _add_client, lines 138-147.
CreateSoapClientWith(calls, aliasArgs, maxClients) ==
    \E a \in calls, alias \in aliasArgs :
      LET u == a.url
          username == a.username
          password == a.password
      IN
        /\ ~GetUrlFails(u)
        /\ nextId <= maxClients
        /\ LET client == nextId
               index == RegisterIndex(Cache)
           IN  /\ SetCache(Register(Cache, client, alias))
               /\ imports' = ImportsAfterAdd(imports)
               /\ nextId' = nextId + 1
               /\ pre' = Cache
               /\ last' = [op |-> "create", arg |-> StrArg(alias), err |-> NoError,
                           ret |-> index, first |-> pending]
               /\ call' = [url |-> u, username |-> username, password |-> password,
                           calls |-> 1, kwargs |-> Kwargs(username, password, imports),
                           imports |-> imports, wouldBe |-> WouldBe]
               /\ owner' = IF alias # NoAlias
                           THEN [owner EXCEPT ![Normalize(alias)] = client]
                           ELSE owner
               /\ hist' = IF fresh
                          THEN Append(hist, [client |-> client, index |-> index,
                                            alias |-> alias])
                          ELSE hist
               /\ pending' = FALSE
               /\ UNCHANGED <<fresh, closed>>

\* The keyword in the behaviours that explore the registry.
CreateSoapClientFails ==
    CreateSoapClientFailsWith(RegistryCalls, AliasArgs)

CreateSoapClient ==
    CreateSoapClientWith(RegistryCalls, AliasArgs, MaxClients)

\* The keyword with every kind of url_or_path, username and password.
CreateSoapClientFailsAny ==
    CreateSoapClientFailsWith(CreateCalls, {NoAlias, "Web"})

CreateSoapClientAny ==
    CreateSoapClientWith(CreateCalls, {NoAlias, "Web"}, MaxCreateClients)

\* An import descriptor is appended to self._imports by the library's
\* import keywords, before a client is created.
AddDoctorImport ==
    \E ns \in Namespaces :
        /\ Len(imports) < MaxImports
        /\ imports' = Append(imports, ns)
        /\ pre' = Cache
        /\ last' = [op |-> "add_import", arg |-> StrArg(ns), err |-> NoError,
                    ret |-> None, first |-> FALSE]
        /\ call' = NoCall
        /\ UNCHANGED <<connections, current, aliases, nextId, owner, hist, fresh,
                       pending, closed>>

\* switch_soap_client, line 91.
SwitchSoapClient ==
    \E a \in SwitchArgs :
        LET r == GetConnection(Cache, a)
        IN  /\ IF r.err = NoError
               THEN SetCache(Switch(Cache, a))
               ELSE UNCHANGED <<connections, current, aliases>>
            /\ pre' = Cache
            /\ last' = [op |-> "switch", arg |-> a, err |-> r.err, ret |-> None,
                        first |-> FALSE]
            /\ call' = NoCall
            /\ UNCHANGED <<nextId, owner, hist, fresh, pending, closed, imports>>

\* close_connection, lines 104-112.
CloseConnection ==
    LET index == CurrentIndex(Cache)
    IN  /\ pre' = Cache
        /\ IF index = None
           THEN /\ last' = [op |-> "close", arg |-> NoArg, err |-> NoOpenConnection,
                            ret |-> None, first |-> FALSE]
                /\ UNCHANGED <<connections, current, aliases, hist, fresh, closed>>
           ELSE /\ SetCache(CloseCurrent(Cache, index))
                /\ closed' = closed \cup {current}
                /\ last' = [op |-> "close", arg |-> NoArg, err |-> NoError,
                            ret |-> None, first |-> FALSE]
                /\ hist' = <<>>
                /\ fresh' = (Len(connections') = 0)
        /\ call' = NoCall
        /\ UNCHANGED <<nextId, owner, pending, imports>>

\* close_all_connections, line 130.
CloseAllConnections ==
    /\ SetCache(EmptyCache(Cache))
    /\ pre' = Cache
    /\ last' = [op |-> "close_all", arg |-> NoArg, err |-> NoError, ret |-> None,
                first |-> FALSE]
    /\ hist' = <<>>
    /\ fresh' = TRUE
    /\ pending' = TRUE
    /\ closed' = closed \cup Handles(connections)
    /\ call' = NoCall
    /\ UNCHANGED <<nextId, owner, imports>>

Next ==
    \/ CreateSoapClient
    \/ CreateSoapClientFails
    \/ SwitchSoapClient
    \/ CloseConnection
    \/ CloseAllConnections

Spec == Init /\ [][Next]_vars

\* The keywords with every input of create_soap_client and the import list.
NextCreate ==
    \/ CreateSoapClientAny
    \/ CreateSoapClientFailsAny
    \/ AddDoctorImport
    \/ SwitchSoapClient
    \/ CloseConnection
    \/ CloseAllConnections

SpecCreate == Init /\ [][NextCreate]_vars

\* ------------------------------------------------------------ type sanity
TypeOK ==
    /\ Len(connections) <= MaxClients
    /\ current \in 0..MaxClients
    /\ nextId \in 1..(MaxClients + 1)
    /\ \A k \in AliasKeys : aliases[k] \in 0..MaxClients

\* ------------------------------------------------- vocabulary of the claims
\* The last keyword was close_connection and it closed a connection.
Closed == last.op = "close" /\ last.err = NoError

\* Index the closed connection held, and the registry's length, before the close.
ClosedAt == CurrentIndex(pre)

PreLen == Len(pre.connections)

\* Nothing of the cache differs from what it was when the last keyword began.
CacheUnchanged ==
    /\ connections = pre.connections
    /\ current = pre.current
    /\ aliases = pre.aliases

\* ---------------------------------------------------------------------- C1
\* C1: close_connection removes exactly one entry, the current one: the
\* number of registered handles drops by one and every other handle is still
\* registered afterwards, whatever position the current connection held.
C1_CloseRemovesOnlyCurrent ==
    Closed =>
        /\ Cardinality(Handles(connections)) = Cardinality(Handles(pre.connections)) - 1
        /\ Handles(connections) = Handles(pre.connections) \ {pre.current}

\* ---------------------------------------------------------------------- C2
\* C2: closing the current connection at index k of n entries moves every
\* handle at an index j > k to j-1 and keeps every handle at an index j < k.
C2_CloseCompactsIndices ==
    Closed =>
        /\ Len(connections) = PreLen - 1
        /\ \A j \in 1..PreLen :
              /\ j < ClosedAt => connections[j] = pre.connections[j]
              /\ j > ClosedAt => connections[j - 1] = pre.connections[j]

\* ---------------------------------------------------------------------- C3
\* C3 as stated: after closing the current connection at index k < n, the
\* current connection is the handle that was at index k+1.
C3_NextBecomesCurrent ==
    (Closed /\ ClosedAt < PreLen) => current = pre.connections[ClosedAt + 1]

\* C3 as amended: after closing the current connection at index k < n, the
\* current connection is the occupant index k-1 had before the close when
\* k > 1, and no connection is current when k = 1.
C3_PreviousBecomesCurrent ==
    (Closed /\ ClosedAt < PreLen) =>
        current = IF ClosedAt > 1 THEN pre.connections[ClosedAt - 1] ELSE NoConnection

C3_Witness ==
    /\ Closed
    /\ ClosedAt < PreLen
    /\ ClosedAt > 1
    /\ current # NoConnection
    /\ current = pre.connections[ClosedAt - 1]

\* ---------------------------------------------------------------------- C4
\* C4: after closing the current connection at index k > 1, the current
\* connection is the live client handle that was at index k-1, never the
\* no-connection sentinel.
C4_PreviousLiveHandleCurrent ==
    (Closed /\ ClosedAt > 1) =>
        /\ current = pre.connections[ClosedAt - 1]
        /\ current # NoConnection
        /\ current \in Handles(connections)

C6_CreatesYieldSequentialIndices ==
    \A i \in 1..Len(hist) :
        /\ hist[i].index = i
        /\ GetConnection(Cache, IntArg(i)).err = NoError
        /\ Switch(Cache, IntArg(i)).current = hist[i].client

C6_Witness ==
    /\ Len(hist) >= 3
    /\ last.op = "create"
    /\ last.ret = 3

\* ---------------------------------------------------------------------- C7
\* C7: close_all_connections leaves the registry empty, no connection
\* current and no alias bound, and the next successful create returns 1.
C7_CloseAllResetsIndices ==
    /\ pending => /\ connections = <<>>
                  /\ current = NoConnection
                  /\ \A k \in AliasKeys : aliases[k] = 0
    /\ (last.op = "create" /\ last.err = NoError /\ last.first) =>
          /\ last.ret = 1
          /\ Len(connections) = 1
          /\ current = connections[1]

C7_Witness ==
    /\ last.op = "create"
    /\ last.err = NoError
    /\ last.first
    /\ Len(pre.connections) = 0
    /\ nextId > 3

\* ---------------------------------------------------------------------- C8
\* An argument of switch_soap_client that matches no registered handle: an
\* index no live handle occupies, or a string that is neither the alias of
\* a handle still registered nor the numeral of an index a live handle holds.
LiveIndex(c, i) == i \in 1..Len(c.connections) /\ c.connections[i] # NoConnection

LiveAlias(c, s) ==
    /\ Normalize(s) \in AliasKeys
    /\ owner[Normalize(s)] \in Handles(c.connections)

MatchesNothing(c, a) ==
    IF a.kind = "int" THEN ~LiveIndex(c, a.i)
    ELSE ~LiveAlias(c, a.s) /\ ~LiveIndex(c, StrToInt(a.s))

\* C8: switch_soap_client with an index or alias that belongs to no
\* registered handle fails with an error and leaves the cache unchanged.
C8_SwitchToAbsentFails ==
    (last.op = "switch" /\ MatchesNothing(pre, last.arg)) =>
        /\ last.err # NoError
        /\ CacheUnchanged

\* ---------------------------------------------------------------------- C9
\* The index the argument of a switch stands for: the integer itself, the
\* index bound to the alias, or the index a numeral spells.
MatchedIndex(c, a) ==
    IF a.kind = "int" THEN a.i
    ELSE IF Normalize(a.s) \in AliasKeys /\ c.aliases[Normalize(a.s)] # 0
         THEN c.aliases[Normalize(a.s)]
         ELSE StrToInt(a.s)

\* C9: a successful switch_soap_client(x) makes the entry matching x
\* current and leaves the registered sequence, every index and every alias
\* binding as they were.
C9_SwitchChangesOnlyCurrent ==
    (last.op = "switch" /\ last.err = NoError) =>
        /\ connections = pre.connections
        /\ aliases = pre.aliases
        /\ MatchedIndex(pre, last.arg) \in 1..Len(pre.connections)
        /\ current = pre.connections[MatchedIndex(pre, last.arg)]

C9_Witness ==
    /\ last.op = "switch"
    /\ last.err = NoError
    /\ current # pre.current
    /\ current # NoConnection
    /\ Len(connections) >= 3
    /\ MatchedIndex(pre, last.arg) < Len(connections)

\* --------------------------------------------------------------------- C10
\* C10: close_connection with no current connection raises the runtime
\* error 'No open connection.' and leaves registry, aliases and current
\* marker unchanged.
C10_CloseWithoutCurrentFails ==
    (last.op = "close" /\ pre.current = NoConnection) =>
        /\ last.err = NoOpenConnection
        /\ CacheUnchanged

C10_Witness ==
    /\ last.op = "close"
    /\ pre.current = NoConnection
    /\ Len(pre.connections) > 0
    /\ last.err = NoOpenConnection

\* --------------------------------------------------------------------- C11
\* C11: in every reachable state the registry's indices are exactly 1..n
\* and every slot holds a live client handle, never the no-connection
\* sentinel or an empty placeholder.
C11_EverySlotHoldsLiveHandle ==
    /\ DOMAIN connections = 1..Len(connections)
    /\ \A i \in 1..Len(connections) : connections[i] # NoConnection

\* --------------------------------------------------------------------- C12
\* C12 as stated: for every handle that is still registered and was created
\* with an alias, switch_soap_client(alias) succeeds and selects that handle.
\* (Stated of the handles created since the registry was last empty with no
\* close since, which are all still registered.)
C12_AliasSelectsItsHandle ==
    \A i \in 1..Len(hist) :
        (hist[i].alias # NoAlias /\ hist[i].client \in Handles(connections)) =>
            /\ GetConnection(Cache, StrArg(hist[i].alias)).err = NoError
            /\ Switch(Cache, StrArg(hist[i].alias)).current = hist[i].client

\* C12 as amended: for every handle that is still registered and is the
\* last one created with its alias, switch_soap_client(alias) succeeds and
\* makes current that handle, the one its present index selects.
C12_AliasSelectsLatestHandle ==
    \A k \in AliasKeys :
        owner[k] \in Handles(connections) =>
            /\ GetConnection(Cache, StrArg(k)).err = NoError
            /\ Switch(Cache, StrArg(k)).current = owner[k]
            /\ \E i \in 1..Len(connections) :
                  /\ connections[i] = owner[k]
                  /\ Switch(Cache, IntArg(i)).current = owner[k]

C12_Witness ==
    /\ closed # {}
    /\ Len(connections) >= 2
    /\ owner["web"] \in Handles(connections)
    /\ owner["web"] # current
    /\ connections[Len(connections)] # owner["web"]
    /\ last.op = "create"

\* --------------------------------------------------------------------- C13
\* C13: a successful create_soap_client makes the newly registered handle
\* current, whatever was current before, and returns that handle's index.
C13_CreateMakesNewCurrent ==
    (last.op = "create" /\ last.err = NoError) =>
        /\ current # NoConnection
        /\ current \notin Handles(pre.connections)
        /\ current # pre.current
        /\ last.ret \in 1..Len(connections)
        /\ connections[last.ret] = current
        /\ CurrentIndex(Cache) = last.ret

C13_Witness ==
    /\ last.op = "create"
    /\ last.err = NoError
    /\ pre.current # NoConnection
    /\ Len(pre.connections) >= 2
    /\ pre.current # pre.connections[Len(pre.connections)]

\* --------------------------------------------------------------------- C17
\* C17: the current connection is the sentinel or a handle present in the
\* registry at exactly one index; a closed handle is never current and is
\* reachable through no index and no alias.
C17_CurrentIsOneLiveEntry ==
    /\ \/ current = NoConnection
       \/ Cardinality({i \in 1..Len(connections) : connections[i] = current}) = 1
    /\ current \notin closed
    /\ \A a \in SwitchArgs :
          GetConnection(Cache, a).err = NoError =>
              GetConnection(Cache, a).conn \notin closed

C17_Witness ==
    /\ closed # {}
    /\ current # NoConnection
    /\ last.op = "close"
    /\ Len(connections) >= 2
    /\ \E k \in AliasKeys : owner[k] \in closed /\ aliases[k] # 0

\* --------------------------------------------------------------------- C14
\* C14: create_soap_client given a path-style reference (URL scheme of at
\* most one character) to a file that does not exist fails with the
\* file-not-found error before Client(...) is called, and leaves registry,
\* current connection and pending import list unchanged.
C14_MissingFileFailsEarly ==
    (last.op = "create" /\ call.url.scheme <= 1 /\ ~call.url.isfile) =>
        /\ last.err = FileNotFound
        /\ call.calls = 0
        /\ CacheUnchanged
        /\ imports = call.imports

C14_Witness ==
    /\ last.op = "create"
    /\ call.url.scheme = 1
    /\ ~call.url.isfile
    /\ last.err = FileNotFound
    /\ imports # <<>>
    /\ current # NoConnection
    /\ call.username = "kevin"

\* --------------------------------------------------------------------- C15
\* C15: the imports pending before a successful create_soap_client are
\* passed as the schema doctor to exactly that client, the list is empty when
\* the call returns, and a create that follows with no import added in
\* between constructs its client with no schema doctor.
C15_ImportsConsumedByCreate ==
    /\ [](  (last.op = "create" /\ last.err = NoError) =>
              /\ call.kwargs.doctor.present = (call.imports # <<>>)
              /\ call.kwargs.doctor.imports = call.imports
              /\ imports = <<>>  )
    /\ [][ (last.op = "create" /\ last.err = NoError
              /\ last'.op = "create" /\ call'.calls = 1) =>
                 /\ ~call'.kwargs.doctor.present
                 /\ call'.kwargs.doctor.imports = <<>> ]_vars

C15_Witness ==
    /\ last.op = "create"
    /\ last.err = NoError
    /\ call.imports = <<"ns2", "ns1">>
    /\ call.kwargs.doctor.present
    /\ imports = <<>>
    /\ Len(connections) = 2

\* --------------------------------------------------------------------- C16
\* C16 as stated: a transport is passed to Client(...) exactly when a
\* username was given (absent: none; empty or non-empty: one), and an absent
\* password is replaced by the empty string.
C16_TransportIffUsernameGiven ==
    (last.op = "create" /\ call.calls = 1) =>
        /\ call.kwargs.transport.present = (call.username # NoUser)
        /\ call.kwargs.transport.present =>
              call.kwargs.transport.password =
                  (IF call.password = NoPassword THEN "" ELSE call.password)

\* C16 as amended: a transport is passed to Client(...) exactly when a
\* non-empty username was given (absent or empty: none); it carries the
\* username and the password, an absent password replaced by the empty string.
C16_TransportIffUsernameNonEmpty ==
    (last.op = "create" /\ call.calls = 1) =>
        /\ call.kwargs.transport.present = (call.username \notin {NoUser, ""})
        /\ call.kwargs.transport.present =>
              /\ call.kwargs.transport.username = call.username
              /\ call.kwargs.transport.password =
                    (IF call.password = NoPassword THEN "" ELSE call.password)

C16_Witness ==
    /\ last.op = "create"
    /\ last.err = NoError
    /\ call.username = "kevin"
    /\ call.password = NoPassword
    /\ call.kwargs.transport.present
    /\ call.kwargs.transport.password = ""

\* --------------------------------------------------------------------- C18
\* C18: when Client(...) fails inside create_soap_client the error leaves
\* the keyword after the one call (no retry), nothing is registered, the
\* current connection is unchanged, and the next successful
\* create_soap_client returns the index the failed call would have returned.
C18_FailedConstructionChangesNothing ==
    /\ (last.op = "create" /\ last.err = ClientError) =>
          /\ call.calls = 1
          /\ CacheUnchanged
          /\ call.wouldBe = Len(connections) + 1
    /\ (last.op = "create" /\ last.err = NoError /\ call.wouldBe # 0) =>
          /\ last.ret = call.wouldBe
          /\ connections = Append(pre.connections, current)

C18_Witness ==
    /\ last.op = "create"
    /\ last.err = NoError
    /\ call.wouldBe = 2
    /\ last.ret = 2
    /\ pre.current # NoConnection

====
